---- MODULE Spec2Model ----
(***************************************************************************)
(* Model of shipment_form_backend/models.py: the placeholder extractor,    *)
(* the DocumentTemplate entity (extract_and_populate_fields, key_field)    *)
(* and the document filler (generate_filled_docx_bytes).                   *)
(*                                                                         *)
(* Text is a sequence of one-character strings.  A document is a record    *)
(* [paragraphs, cells]: the text of its body paragraphs and, row-major     *)
(* over all tables, the text of its table cells.                           *)
(***************************************************************************)
EXTENDS Integers, Sequences, FiniteSets, TLC

\* ------------------------------------------------------------------ bounds

\* Number of fragments a generated document is built from.
MaxFrags == 3

\* ------------------------------------------------------------- characters

NL == "\n"

\* Code point of a character (Python compares str by code point).
Ord(c) ==
    CASE c = NL  -> 10
      [] c = " " -> 32
      [] c = "A" -> 65
      [] c = "B" -> 66
      [] c = "C" -> 67
      [] c = "E" -> 69
      [] c = "H" -> 72
      [] c = "I" -> 73
      [] c = "L" -> 76
      [] c = "M" -> 77
      [] c = "N" -> 78
      [] c = "O" -> 79
      [] c = "X" -> 88
      [] c = "[" -> 91
      [] c = "]" -> 93
      [] c = "_" -> 95
      [] c = "a" -> 97
      [] c = "b" -> 98
      [] c = "c" -> 99
      [] c = "e" -> 101
      [] c = "h" -> 104
      [] c = "i" -> 105
      [] c = "l" -> 108
      [] c = "m" -> 109
      [] c = "n" -> 110
      [] c = "o" -> 111
      [] c = "x" -> 120
      [] c = "{" -> 123
      [] c = "}" -> 125

\* str.upper() / str.lower() of one character.
UpperOf(c) ==
    CASE c = "a" -> "A" [] c = "b" -> "B" [] c = "c" -> "C" [] c = "e" -> "E"
      [] c = "h" -> "H" [] c = "i" -> "I" [] c = "l" -> "L" [] c = "m" -> "M"
      [] c = "n" -> "N" [] c = "o" -> "O" [] c = "x" -> "X"
      [] OTHER -> c

LowerOf(c) ==
    CASE c = "A" -> "a" [] c = "B" -> "b" [] c = "C" -> "c" [] c = "E" -> "e"
      [] c = "H" -> "h" [] c = "I" -> "i" [] c = "L" -> "l" [] c = "M" -> "m"
      [] c = "N" -> "n" [] c = "O" -> "o" [] c = "X" -> "x"
      [] OTHER -> c

IsCased(c) == (Ord(c) >= 65 /\ Ord(c) <= 90) \/ (Ord(c) >= 97 /\ Ord(c) <= 122)

\* Whitespace as str.strip() and the regex class \s see it.
IsSpace(c) == c \in {" ", NL}

\* ------------------------------------------------------------ text helpers

RECURSIVE LStrip(_)
LStrip(s) ==
    IF s = <<>> THEN s
    ELSE IF IsSpace(Head(s)) THEN LStrip(Tail(s)) ELSE s

RECURSIVE RStrip(_)
RStrip(s) ==
    IF s = <<>> THEN s
    ELSE IF IsSpace(s[Len(s)]) THEN RStrip(SubSeq(s, 1, Len(s) - 1)) ELSE s

\* str.strip()
Strip(s) == RStrip(LStrip(s))

\* re.sub(r"\s+", "_", s)
RECURSIVE SubWhitespace(_)
SubWhitespace(s) ==
    IF s = <<>> THEN <<>>
    ELSE IF IsSpace(Head(s)) THEN <<"_">> \o SubWhitespace(LStrip(s))
    ELSE <<Head(s)>> \o SubWhitespace(Tail(s))

\* "\n".join(text)
RECURSIVE JoinLines(_)
JoinLines(text) ==
    IF text = <<>> THEN <<>>
    ELSE IF Len(text) = 1 THEN text[1]
    ELSE text[1] \o <<NL>> \o JoinLines(Tail(text))

\* First index j >= i with t[j] = c, or 0.
IndexFrom(t, i, c) ==
    LET S == {j \in i..Len(t) : t[j] = c}
    IN  IF S = {} THEN 0 ELSE CHOOSE j \in S : \A k \in S : j <= k

\* re.findall(r"\[([^\]]+)\]", t), scanning from index i.
RECURSIVE FindallBracket(_, _)
FindallBracket(t, i) ==
    IF i > Len(t) THEN <<>>
    ELSE IF t[i] # "[" THEN FindallBracket(t, i + 1)
    ELSE LET j == IndexFrom(t, i + 1, "]")
         IN  IF j = 0 \/ j = i + 1 THEN FindallBracket(t, i + 1)
             ELSE <<SubSeq(t, i + 1, j - 1)>> \o FindallBracket(t, j + 1)

\* re.findall(r"\{\{([^}]+)\}\}", t), scanning from index i.
RECURSIVE FindallBrace(_, _)
FindallBrace(t, i) ==
    IF i + 1 > Len(t) THEN <<>>
    ELSE IF ~(t[i] = "{" /\ t[i + 1] = "{") THEN FindallBrace(t, i + 1)
    ELSE LET j == IndexFrom(t, i + 2, "}")
         IN  IF j >= i + 3 /\ j + 1 <= Len(t) /\ t[j + 1] = "}"
             THEN <<SubSeq(t, i + 2, j - 1)>> \o FindallBrace(t, j + 2)
             ELSE FindallBrace(t, i + 1)

\* a < b for Python str
RECURSIVE LexLess(_, _)
LexLess(a, b) ==
    IF b = <<>> THEN FALSE
    ELSE IF a = <<>> THEN TRUE
    ELSE IF Ord(Head(a)) < Ord(Head(b)) THEN TRUE
    ELSE IF Ord(Head(a)) > Ord(Head(b)) THEN FALSE
    ELSE LexLess(Tail(a), Tail(b))

\* sorted(S) for a set S of str
RECURSIVE Sorted(_)
Sorted(S) ==
    IF S = {} THEN <<>>
    ELSE LET m == CHOOSE x \in S : \A y \in S \ {x} : LexLess(x, y)
         IN  <<m>> \o Sorted(S \ {m})

Range(s) == {s[i] : i \in 1..Len(s)}

\* ------------------------------------------------- placeholder extraction

\* The text list built from doc.paragraphs and the cells of doc.tables.
DocText(d) == d.paragraphs \o d.cells

\* Variant: the keys of the two syntaxes are collected and sorted separately
\* and never merged into one set.
extract_unmerged(d) ==
    LET joined == JoinLines(DocText(d))
        norm(ms) == {SubWhitespace(Strip(Strip(m))) : m \in Range(ms)}
    IN  Sorted(norm(FindallBracket(joined, 1))) \o Sorted(norm(FindallBrace(joined, 1)))

extract_placeholders_from_docx(d) ==
    LET joined == JoinLines(DocText(d))
        keys == {Strip(m) : m \in Range(FindallBracket(joined, 1))}
                \cup {Strip(m) : m \in Range(FindallBrace(joined, 1))}
        normalized == {SubWhitespace(Strip(k)) : k \in keys}
    IN  Sorted(normalized)

\* ------------------------------------------------------------ field schema

\* str.replace(old, new): non-overlapping occurrences, left to right.
RECURSIVE Replace(_, _, _)
Replace(t, old, new) ==
    IF Len(t) < Len(old) THEN t
    ELSE IF SubSeq(t, 1, Len(old)) = old
         THEN new \o Replace(SubSeq(t, Len(old) + 1, Len(t)), old, new)
         ELSE <<Head(t)>> \o Replace(Tail(t), old, new)

\* str.title(): a cased character is upper-cased unless it follows a cased one.
RECURSIVE TitleFrom(_, _)
TitleFrom(s, prevCased) ==
    IF s = <<>> THEN <<>>
    ELSE LET c == Head(s)
         IN  <<IF prevCased THEN LowerOf(c) ELSE UpperOf(c)>>
             \o TitleFrom(Tail(s), IsCased(c))

\* label = k.replace("_", " ").strip().title()
Label(k) == TitleFrom(Strip(Replace(k, <<"_">>, <<" ">>)), FALSE)

\* mapping = {k: label for k in keys}
Mapping(keys) == [k \in Range(keys) |-> Label(k)]

\* self.fields.keys(): the dict keeps the insertion order of the sorted keys.
FieldKeys(fields) == Sorted(DOMAIN fields)

\* ------------------------------------------------------------------- fill

\* field_values.get(key, "")
Get(field_values, key) ==
    IF key \in DOMAIN field_values THEN field_values[key] ELSE <<>>

\* Variant: a key absent from field_values is skipped, its placeholder kept.
RECURSIVE ReplaceKeysPresent(_, _, _)
ReplaceKeysPresent(text, keys, field_values) ==
    IF keys = <<>> THEN text
    ELSE LET key == Head(keys)
             t1 == Replace(text, <<"[">> \o key \o <<"]">>, field_values[key])
             t2 == Replace(t1, <<"{", "{">> \o key \o <<"}", "}">>, field_values[key])
         IN  ReplaceKeysPresent(IF key \in DOMAIN field_values THEN t2 ELSE text,
                                Tail(keys), field_values)

\* The loop over self.fields.keys() in replace_in_paragraphs: both forms of
\* each key are replaced in turn, in the order of keys.
RECURSIVE ReplaceKeys(_, _, _)
ReplaceKeys(text, keys, field_values) ==
    IF keys = <<>> THEN text
    ELSE LET key == Head(keys)
             v == Get(field_values, key)
             t1 == Replace(text, <<"[">> \o key \o <<"]">>, v)
             t2 == Replace(t1, <<"{", "{">> \o key \o <<"}", "}">>, v)
         IN  ReplaceKeys(t2, Tail(keys), field_values)

replace_in_paragraphs(paragraphs, fields, field_values) ==
    [i \in 1..Len(paragraphs) |->
        ReplaceKeys(paragraphs[i], FieldKeys(fields), field_values)]

\* What a fill returns: the filled document, or raised when the library raises.
Returned(ps, cs) == [raised |-> FALSE, paragraphs |-> ps, cells |-> cs]

Raised == [raised |-> TRUE, paragraphs |-> <<>>, cells |-> <<>>]

\* The python-docx fallback of generate_filled_docx_bytes.
FillFallback(d, fields, field_values) ==
    Returned(replace_in_paragraphs(d.paragraphs, fields, field_values),
             replace_in_paragraphs(d.cells, fields, field_values))

\* Marks a paragraph tpl.render cannot parse (no text: its one element is not
\* a character).
TemplateError == <<"TemplateError">>

IsIdentifier(s) ==
    /\ s # <<>>
    /\ \A i \in 1..Len(s) : IsCased(s[i]) \/ s[i] = "_"

\* First index j >= i with t[j] = t[j+1] = "}", or 0.
CloseFrom(t, i) ==
    LET S == {j \in i..(Len(t) - 1) : t[j] = "}" /\ t[j + 1] = "}"}
    IN  IF S = {} THEN 0 ELSE CHOOSE j \in S : \A k \in S : j <= k

\* tpl.render(ctx) on one paragraph: every {{ expr }} is replaced by the value
\* of the variable expr names (empty when ctx does not define it); all other
\* text, bracketed [KEY] tokens included, is copied.
RECURSIVE RenderText(_, _)
RenderText(t, ctx) ==
    IF Len(t) < 2 THEN t
    ELSE IF ~(t[1] = "{" /\ t[2] = "{")
    THEN LET rest == RenderText(Tail(t), ctx)
         IN  IF rest = TemplateError THEN TemplateError ELSE <<Head(t)>> \o rest
    ELSE LET j == CloseFrom(t, 3)
             expr == Strip(SubSeq(t, 3, j - 1))
             rest == RenderText(SubSeq(t, j + 2, Len(t)), ctx)
         IN  IF j = 0 THEN TemplateError
             ELSE IF ~IsIdentifier(expr) \/ rest = TemplateError THEN TemplateError
             ELSE (IF expr \in DOMAIN ctx THEN ctx[expr] ELSE <<>>) \o rest

RenderParagraphs(paragraphs, ctx) ==
    [i \in 1..Len(paragraphs) |-> RenderText(paragraphs[i], ctx)]

\* The docxtpl branch of generate_filled_docx_bytes.
FillDocxtpl(d, fields, field_values) ==
    LET ctx == [k \in DOMAIN fields |-> Get(field_values, k)]
        ps == RenderParagraphs(d.paragraphs, ctx)
        cs == RenderParagraphs(d.cells, ctx)
    IN  IF TemplateError \in Range(ps) \cup Range(cs) THEN Raised
        ELSE Returned(ps, cs)

generate_filled_docx_bytes(docxtpl_available, d, fields, field_values) ==
    IF docxtpl_available THEN FillDocxtpl(d, fields, field_values)
    ELSE FillFallback(d, fields, field_values)

\* ------------------------------------------- documents and values under test

TokenA == <<"[", "A", "]">>

TokenAA == <<"{", "{", "A", "}", "}">>

EmptyDoc == [paragraphs |-> << <<>> >>, cells |-> <<>>]

\* A document whose one paragraph reads "Hello [NAME]".
HelloDoc ==
    [paragraphs |-> << <<"H", "e", "l", "l", "o", " ", "[", "N", "A", "M", "E", "]">> >>,
     cells |-> <<>>]

NAME == <<"N", "A", "M", "E">>

Alice == <<"A", "l", "i", "c", "e">>

\* Pieces of text a generated document is assembled from.
Fragments ==
    { <<"[">>, <<"]">>, <<"{">>, <<"}">>, <<"A">>, <<"B">>, <<" ">>,
      <<"[", "A", "]">>, <<"[", "B", "]">>, <<"{", "{">>,
      <<"{", "{", "A", "}", "}">>, <<"[", "a", "]">> }

ValueKeys == { <<"A">>, <<"B">> }

ValueTexts == { <<"x">>, <<"[", "B", "]">> }

\* The field_values dicts a fill is called with.
ValueMaps ==
    UNION { [ks -> ValueTexts] : ks \in SUBSET ValueKeys }
    \cup { [k \in {NAME} |-> Alice] }

\* ------------------------------------------------------------------ state

VARIABLES
    DOCXTPL_AVAILABLE,  \* the module-level flag, set once at import
    doc,                \* the document handed to the extractor and the filler
    nfrags,             \* number of fragments doc was assembled from
    phase,              \* "build", "extracted" or "filled"
    keys_out,           \* what extract_placeholders_from_docx returned
    field_values,       \* the argument of the last fill
    out,                \* what generate_filled_docx_bytes returned
    db,                 \* the persisted DocumentTemplate row: file, fields, key_field
    inst,               \* inst[p]: the DocumentTemplate instance request p holds
    pc,                 \* pc[p]: where p is in extract_and_populate_fields
    keys,               \* keys[p]: the local variable keys of p's call
    handles,            \* the requests whose file handle f is open
    pre,                \* pre[p]: fields and key_field of inst[p] when its last call began
    ret,                \* ret[p]: p's last finished call and whether it raised
    rerun,              \* rerun[p]: "returned" or "raised" when p's last finished call
                        \* was an extract_and_populate_fields that ended so and nothing
                        \* has touched its instance, its file or the row since; else "no"
    writer              \* the request whose save wrote the row last (0: its creation)

textVars == <<doc, nfrags, phase, keys_out, field_values>>

entityVars == <<db, inst, pc, keys, handles, pre, ret, rerun, writer>>

vars == <<DOCXTPL_AVAILABLE, textVars, out, entityVars>>

\* None, the value of an unset key_field (no text: its one element is not a
\* character).
None == <<"None">>

\* bool(key_field): None and "" are falsy.
Truthy(key_field) == key_field # None /\ key_field # <<>>

\* The requests: two, each holding its own loaded instance.
Procs == {1, 2}

\* Stored files: a dangling reference, bytes that are no .docx, or a document.
MissingFile == [status |-> "missing", doc |-> EmptyDoc]

MalformedFile == [status |-> "malformed", doc |-> EmptyDoc]

DocFile(d) == [status |-> "ok", doc |-> d]

\* "[A]"
DocA == [paragraphs |-> << TokenA >>, cells |-> <<>>]

\* "[B]" in the body and "{{ A }}" in a table cell
DocBA ==
    [paragraphs |-> << <<"[", "B", "]">> >>,
     cells |-> << <<"{", "{", " ", "A", " ", "}", "}">> >>]

\* "AB": no placeholder
DocPlain == [paragraphs |-> << <<"A", "B">> >>, cells |-> <<>>]

\* "[ ]": a placeholder whose key is empty once stripped
DocBlank == [paragraphs |-> << <<"[", " ", "]">> >>, cells |-> <<>>]

Files ==
    {MissingFile, MalformedFile,
     DocFile(DocA), DocFile(DocBA), DocFile(DocPlain), DocFile(DocBlank)}

\* How a call ended; NoCall while one runs or after a load.
Ended(call, raised) == [call |-> call, raised |-> raised]

NoCall == Ended("none", FALSE)

\* Values a caller assigns to key_field.
KeyChoices == {None, <<"A">>, <<"B">>}

\* The field_values a render request passes.
RenderValues == { <<>>, [k \in { <<"A">> } |-> <<"x">>] }

Snapshot(t) == [fields |-> t.fields, key_field |-> t.key_field]

\* A template row as created: fields defaults to {}, key_field to None.
NewTemplate(file) == [file |-> file, fields |-> <<>>, key_field |-> None]

EntityInit(file) ==
    /\ db = NewTemplate(file)
    /\ inst = [p \in Procs |-> NewTemplate(file)]
    /\ pc = [p \in Procs |-> "idle"]
    /\ keys = [p \in Procs |-> <<>>]
    /\ handles = {}
    /\ pre = [p \in Procs |-> Snapshot(NewTemplate(file))]
    /\ ret = [p \in Procs |-> NoCall]
    /\ rerun = [p \in Procs |-> "no"]
    /\ writer = 0

TextInit ==
    /\ DOCXTPL_AVAILABLE \in BOOLEAN
    /\ \/ doc = EmptyDoc /\ nfrags = 0
       \/ doc = HelloDoc /\ nfrags = MaxFrags
    /\ phase = "build"
    /\ keys_out = <<>>
    /\ field_values = <<>>
    /\ out = Raised
    /\ EntityInit(MissingFile)

\* Text is typed at the end of the document: in its last table cell if it has
\* one, else in its last body paragraph.
AppendTo(ps, f) == [ps EXCEPT ![Len(ps)] = @ \o f]

AppendFragment(f) ==
    /\ phase = "build"
    /\ nfrags < MaxFrags
    /\ doc' = IF doc.cells # <<>>
              THEN [doc EXCEPT !.cells = AppendTo(@, f)]
              ELSE [doc EXCEPT !.paragraphs = AppendTo(@, f)]
    /\ nfrags' = nfrags + 1
    /\ UNCHANGED <<DOCXTPL_AVAILABLE, phase, keys_out, field_values, out, entityVars>>

NewParagraph ==
    /\ phase = "build"
    /\ nfrags < MaxFrags
    /\ doc.cells = <<>>
    /\ doc' = [doc EXCEPT !.paragraphs = Append(@, <<>>)]
    /\ nfrags' = nfrags + 1
    /\ UNCHANGED <<DOCXTPL_AVAILABLE, phase, keys_out, field_values, out, entityVars>>

NewCell ==
    /\ phase = "build"
    /\ nfrags < MaxFrags
    /\ doc' = [doc EXCEPT !.cells = Append(@, <<>>)]
    /\ nfrags' = nfrags + 1
    /\ UNCHANGED <<DOCXTPL_AVAILABLE, phase, keys_out, field_values, out, entityVars>>

Extract ==
    /\ phase = "build"
    /\ keys_out' = extract_placeholders_from_docx(doc)
    /\ phase' = "extracted"
    /\ UNCHANGED <<DOCXTPL_AVAILABLE, doc, nfrags, field_values, out, entityVars>>

Fill(values) ==
    /\ phase = "extracted"
    /\ field_values' = values
    /\ out' = generate_filled_docx_bytes(DOCXTPL_AVAILABLE, doc, Mapping(keys_out), values)
    /\ phase' = "filled"
    /\ UNCHANGED <<DOCXTPL_AVAILABLE, doc, nfrags, keys_out, entityVars>>

TextNext ==
    \/ \E f \in Fragments : AppendFragment(f)
    \/ NewParagraph
    \/ NewCell
    \/ Extract
    \/ \E values \in ValueMaps : Fill(values)

SpecText == TextInit /\ [][TextNext]_vars

\* ------------------------------------------------------ DocumentTemplate

\* A request takes the stored row into an instance of its own
\* (DocumentTemplate.objects.get).
Load(p) ==
    /\ pc[p] = "idle"
    /\ inst' = [inst EXCEPT ![p] = db]
    /\ pre' = [pre EXCEPT ![p] = Snapshot(db)]
    /\ ret' = [ret EXCEPT ![p] = NoCall]
    /\ rerun' = [rerun EXCEPT ![p] = "no"]
    /\ UNCHANGED <<DOCXTPL_AVAILABLE, textVars, out, db, pc, keys, handles, writer>>

\* Model.save(): every column of the row is written from the instance.
SaveAll(t) == t

\* key_field is a plain CharField(blank=True, null=True) with no validator:
\* template.key_field = k; template.save()
SetKeyField(p, k) ==
    /\ pc[p] = "idle"
    /\ inst' = [inst EXCEPT ![p].key_field = k]
    /\ db' = SaveAll(inst'[p])
    /\ writer' = p
    /\ pre' = [pre EXCEPT ![p] = Snapshot(inst[p])]
    /\ ret' = [ret EXCEPT ![p] = Ended("set_key_field", FALSE)]
    /\ rerun' = [q \in Procs |-> "no"]
    /\ UNCHANGED <<DOCXTPL_AVAILABLE, textVars, out, pc, keys, handles>>

\* template.file = f; template.save()
ReplaceFile(p, f) ==
    /\ pc[p] = "idle"
    /\ inst' = [inst EXCEPT ![p].file = f]
    /\ db' = SaveAll(inst'[p])
    /\ writer' = p
    /\ pre' = [pre EXCEPT ![p] = Snapshot(inst[p])]
    /\ ret' = [ret EXCEPT ![p] = Ended("replace_file", FALSE)]
    /\ rerun' = [q \in Procs |-> "no"]
    /\ UNCHANGED <<DOCXTPL_AVAILABLE, textVars, out, pc, keys, handles>>

\* extract_and_populate_fields, f.open(mode="rb") succeeding.
Open(p) ==
    /\ pc[p] = "idle"
    /\ inst[p].file.status # "missing"
    /\ handles' = handles \cup {p}
    /\ pc' = [pc EXCEPT ![p] = "opened"]
    /\ pre' = [pre EXCEPT ![p] = Snapshot(inst[p])]
    /\ ret' = [ret EXCEPT ![p] = NoCall]
    /\ UNCHANGED <<DOCXTPL_AVAILABLE, textVars, out, db, inst, keys, rerun, writer>>

\* f.open(mode="rb") raising: the stored file is not there.
OpenRaises(p) ==
    /\ pc[p] = "idle"
    /\ inst[p].file.status = "missing"
    /\ pre' = [pre EXCEPT ![p] = Snapshot(inst[p])]
    /\ ret' = [ret EXCEPT ![p] = Ended("extract_and_populate_fields", TRUE)]
    /\ rerun' = [rerun EXCEPT ![p] = "raised"]
    /\ UNCHANGED <<DOCXTPL_AVAILABLE, textVars, out, db, inst, pc, keys, handles, writer>>

\* try: keys = extract_placeholders_from_docx(f)  finally: f.close()
ExtractReturns(p) ==
    /\ pc[p] = "opened"
    /\ inst[p].file.status = "ok"
    /\ keys' = [keys EXCEPT ![p] = extract_placeholders_from_docx(inst[p].file.doc)]
    /\ handles' = handles \ {p}
    /\ pc' = [pc EXCEPT ![p] = "extracted"]
    /\ UNCHANGED <<DOCXTPL_AVAILABLE, textVars, out, db, inst, pre, ret, rerun, writer>>

\* Variant: no finally, the handle stays open when Document(f) raises.
ExtractRaisesNoClose(p) ==
    /\ pc[p] = "opened"
    /\ inst[p].file.status = "malformed"
    /\ pc' = [pc EXCEPT ![p] = "idle"]
    /\ ret' = [ret EXCEPT ![p] = Ended("extract_and_populate_fields", TRUE)]
    /\ rerun' = [rerun EXCEPT ![p] = "raised"]
    /\ UNCHANGED <<DOCXTPL_AVAILABLE, textVars, out, db, inst, keys, handles, pre, writer>>

\* Document(f) raising on bytes that are no .docx; finally: f.close()
ExtractRaises(p) ==
    /\ pc[p] = "opened"
    /\ inst[p].file.status = "malformed"
    /\ handles' = handles \ {p}
    /\ pc' = [pc EXCEPT ![p] = "idle"]
    /\ ret' = [ret EXCEPT ![p] = Ended("extract_and_populate_fields", TRUE)]
    /\ rerun' = [rerun EXCEPT ![p] = "raised"]
    /\ UNCHANGED <<DOCXTPL_AVAILABLE, textVars, out, db, inst, keys, pre, writer>>

\* Variant: the default is the last key of the list.
DefaultKeyFieldLast(key_field, ks) ==
    IF ~Truthy(key_field) /\ ks # <<>> THEN ks[Len(ks)] ELSE key_field

\* Variant: the default is assigned whenever there are keys.
DefaultKeyFieldAlways(key_field, ks) ==
    IF ks # <<>> THEN ks[1] ELSE key_field

\* if not self.key_field and keys: self.key_field = keys[0]
DefaultKeyField(key_field, ks) ==
    IF ~Truthy(key_field) /\ ks # <<>> THEN ks[1] ELSE key_field

\* Variant: the default key_field is taken from the fields the instance held
\* before the new mapping is assigned.
PopulatedStaleDefault(t, ks) ==
    [t EXCEPT !.fields = Mapping(ks),
              !.key_field = DefaultKeyField(t.key_field, FieldKeys(t.fields))]

\* self.fields = mapping, then the default key_field
Populated(t, ks) ==
    [t EXCEPT !.fields = Mapping(ks),
              !.key_field = DefaultKeyField(t.key_field, ks)]

Populate(p) ==
    /\ pc[p] = "extracted"
    /\ inst' = [inst EXCEPT ![p] = Populated(inst[p], keys[p])]
    /\ pc' = [pc EXCEPT ![p] = "populated"]
    /\ UNCHANGED <<DOCXTPL_AVAILABLE, textVars, out, db, keys, handles, pre, ret, rerun, writer>>

\* Variant: update_fields names fields alone.
SaveFieldsOnly(row, t) == [row EXCEPT !.fields = t.fields]

\* self.save(update_fields=["fields", "key_field", "updated_at"]): one UPDATE
\* of these columns of the row.
SaveUpdateFields(row, t) ==
    [row EXCEPT !.fields = t.fields, !.key_field = t.key_field]

SaveReturns(p) ==
    /\ pc[p] = "populated"
    /\ db' = SaveUpdateFields(db, inst[p])
    /\ writer' = p
    /\ pc' = [pc EXCEPT ![p] = "idle"]
    /\ keys' = [keys EXCEPT ![p] = <<>>]
    /\ ret' = [ret EXCEPT ![p] = Ended("extract_and_populate_fields", FALSE)]
    /\ rerun' = [q \in Procs |-> IF q = p THEN "returned" ELSE "no"]
    /\ UNCHANGED <<DOCXTPL_AVAILABLE, textVars, out, inst, handles, pre>>

\* self.save(...) raising (the database refuses the UPDATE).
SaveRaises(p) ==
    /\ pc[p] = "populated"
    /\ pc' = [pc EXCEPT ![p] = "idle"]
    /\ keys' = [keys EXCEPT ![p] = <<>>]
    /\ ret' = [ret EXCEPT ![p] = Ended("extract_and_populate_fields", TRUE)]
    /\ rerun' = [rerun EXCEPT ![p] = "raised"]
    /\ UNCHANGED <<DOCXTPL_AVAILABLE, textVars, out, db, inst, handles, pre, writer>>

\* generate_filled_docx_bytes(field_values) on p's instance: the library reads
\* self.file.path itself and raises when the file is missing or no .docx.
Render(p, values) ==
    /\ pc[p] = "idle"
    /\ out' = IF inst[p].file.status = "ok"
              THEN generate_filled_docx_bytes(DOCXTPL_AVAILABLE, inst[p].file.doc,
                                              inst[p].fields, values)
              ELSE Raised
    /\ pre' = [pre EXCEPT ![p] = Snapshot(inst[p])]
    /\ ret' = [ret EXCEPT ![p] = Ended("generate_filled_docx_bytes", out'.raised)]
    /\ UNCHANGED <<DOCXTPL_AVAILABLE, textVars, db, inst, pc, keys, handles, rerun, writer>>

Init ==
    /\ DOCXTPL_AVAILABLE \in BOOLEAN
    /\ doc = EmptyDoc
    /\ nfrags = 0
    /\ phase = "build"
    /\ keys_out = <<>>
    /\ field_values = <<>>
    /\ out = Raised
    /\ \E file \in Files : EntityInit(file)

\* The steps of one extract_and_populate_fields call.
Refresh(p) ==
    \/ Open(p)
    \/ OpenRaises(p)
    \/ ExtractReturns(p)
    \/ ExtractRaises(p)
    \/ Populate(p)
    \/ SaveReturns(p)
    \/ SaveRaises(p)

\* One request at a time works on the template.
Next ==
    \/ Load(1)
    \/ \E k \in KeyChoices : SetKeyField(1, k)
    \/ \E f \in Files : ReplaceFile(1, f)
    \/ Refresh(1)
    \/ \E values \in RenderValues : Render(1, values)

Spec == Init /\ [][Next]_vars

\* Two requests refresh the template concurrently, each on the instance it
\* loaded; uploads change the file in between.
RaceNext ==
    \E p \in Procs :
        \/ Load(p)
        \/ \E f \in Files : ReplaceFile(p, f)
        \/ Refresh(p)

SpecRace == Init /\ [][RaceNext]_vars

\* ------------------------------------------------- claims: extractor, filler

IsStrictlyIncreasing(ks) ==
    \A i \in 1..(Len(ks) - 1) : LexLess(ks[i], ks[i + 1])

BracketChars == {"[", "]", "{", "}"}

HasBracketChar(t) == \E i \in 1..Len(t) : t[i] \in BracketChars

\* The placeholder forms of key k: [k], and {{k}} when braces is set.
Forms(k, braces) ==
    { <<"[">> \o k \o <<"]">> }
    \cup (IF braces THEN { <<"{", "{">> \o k \o <<"}", "}">> } ELSE {})

StartsWith(t, tok) == Len(tok) <= Len(t) /\ SubSeq(t, 1, Len(tok)) = tok

\* t with every occurrence of a placeholder of a key of ks replaced, all at
\* once, by the key's value (empty when values has none).
RECURSIVE Substituted(_, _, _, _)
Substituted(t, ks, values, braces) ==
    IF t = <<>> THEN <<>>
    ELSE LET hit == {k \in ks : \E f \in Forms(k, braces) : StartsWith(t, f)}
         IN  IF hit = {} THEN <<Head(t)>> \o Substituted(Tail(t), ks, values, braces)
             ELSE LET k == CHOOSE x \in hit : TRUE
                      f == CHOOSE x \in Forms(k, braces) : StartsWith(t, x)
                  IN  Get(values, k)
                      \o Substituted(SubSeq(t, Len(f) + 1, Len(t)), ks, values, braces)

SubstitutedAll(ps, ks, values, braces) ==
    [i \in 1..Len(ps) |-> Substituted(ps[i], ks, values, braces)]

\* t with every [A] and every {{A}} taken out, in one pass.
WithoutA(t) == Substituted(t, { <<"A">> }, <<>>, TRUE)

\* The placeholders of d are [A], {{A}} or both, and d holds no other bracket
\* or brace.
OnlyPlaceholderA(d) ==
    /\ \A i \in 1..Len(DocText(d)) : ~HasBracketChar(WithoutA(DocText(d)[i]))
    /\ \E i \in 1..Len(DocText(d)) : WithoutA(DocText(d)[i]) # DocText(d)[i]

Contains(t, tok) == Replace(t, tok, <<>>) # t

\* C7: extract_placeholders_from_docx returns a strictly increasing sequence
\* of keys, and a document whose only placeholders are [A], {{A}} or both
\* yields exactly the one key "A".
C7_ExtractSortedUniqueMerged ==
    phase # "build" =>
        /\ IsStrictlyIncreasing(keys_out)
        /\ OnlyPlaceholderA(doc) => keys_out = << <<"A">> >>

\* A document holding both [A] and {{A}} has been extracted.
C7_Witness ==
    /\ phase = "extracted"
    /\ OnlyPlaceholderA(doc)
    /\ \E i \in 1..Len(DocText(doc)) : Contains(DocText(doc)[i], TokenA)
    /\ \E i \in 1..Len(DocText(doc)) : Contains(DocText(doc)[i], TokenAA)
    /\ keys_out = << <<"A">> >>

HelloAlice == <<"H", "e", "l", "l", "o", " ">> \o Alice

\* Every bracket and brace of d belongs to a placeholder [KEY] or {{KEY}} of a
\* key of keys.
WellFormed(d, ks) ==
    \A i \in 1..Len(DocText(d)) :
        ~HasBracketChar(Substituted(DocText(d)[i], ks, <<>>, TRUE))

\* No schema key and no value holds a bracket or a brace.
PlainKeysAndValues ==
    /\ \A i \in 1..Len(keys_out) : ~HasBracketChar(keys_out[i])
    /\ \A k \in DOMAIN field_values : ~HasBracketChar(field_values[k])

AllSubstituted ==
    out = Returned(SubstitutedAll(doc.paragraphs, Range(keys_out), field_values, TRUE),
                   SubstitutedAll(doc.cells, Range(keys_out), field_values, TRUE))

\* C6 as stated: under either strategy every placeholder of a schema key is
\* replaced by its value, or by the empty string when field_values has none.
C6_FillEitherStrategy ==
    (phase = "filled" /\ WellFormed(doc, Range(keys_out)) /\ PlainKeysAndValues)
    => AllSubstituted

\* C6 (amended): with the fallback strategy, on a template whose brackets and
\* braces all belong to placeholders of schema keys, and with values free of
\* brackets and braces, every [KEY] and {{KEY}} of a schema key is replaced by
\* its value, or by the empty string when field_values has none:
\* "Hello [NAME]" becomes "Hello Alice" with {"NAME": "Alice"} and "Hello "
\* without NAME.
C6_FillFallbackSubstitutes ==
    (phase = "filled" /\ ~DOCXTPL_AVAILABLE) =>
        /\ (WellFormed(doc, Range(keys_out)) /\ PlainKeysAndValues) => AllSubstituted
        /\ doc = HelloDoc =>
              out.paragraphs = << IF NAME \in DOMAIN field_values
                                  THEN HelloAlice
                                  ELSE <<"H", "e", "l", "l", "o", " ">> >>

\* "Hello [NAME]" has been filled with {"NAME": "Alice"} by the fallback.
C6_Witness ==
    /\ phase = "filled"
    /\ ~DOCXTPL_AVAILABLE
    /\ doc = HelloDoc
    /\ NAME \in DOMAIN field_values
    /\ out = Returned(<<HelloAlice>>, <<>>)

\* --------------------------------------------------- claims: DocumentTemplate

\* C1: the persisted key_field is unset or is a key of the persisted fields.
C1_KeyFieldInSchema ==
    Truthy(db.key_field) => db.key_field \in DOMAIN db.fields

\* C2: extract_and_populate_fields leaves a key_field that was set when the
\* call began as it was, whatever keys the file yields; it writes key_field
\* only when it was unset.
C2_RefreshKeepsSetKeyField ==
    \A p \in Procs :
        pc[p] = "populated" =>
            /\ Truthy(pre[p].key_field) => inst[p].key_field = pre[p].key_field
            /\ inst[p].key_field # pre[p].key_field => ~Truthy(pre[p].key_field)

\* A call has populated a schema that differs from the previous one while
\* key_field was set.
C2_Witness ==
    /\ pc[1] = "populated"
    /\ Truthy(pre[1].key_field)
    /\ DOMAIN inst[1].fields # DOMAIN pre[1].fields
    /\ pre[1].key_field \notin DOMAIN inst[1].fields
    /\ inst[1].key_field = pre[1].key_field

\* C3: a second extract_and_populate_fields run right after a finished one,
\* on the same file, leaves the instance's fields and key_field as the first
\* run left them, and leaves the persisted row as the first run wrote it.
C3_RefreshIdempotent ==
    [][\A p \in Procs :
          /\ (rerun[p] # "no" /\ pc'[p] # pc[p]) => inst'[p] = inst[p]
          /\ (rerun[p] = "returned" /\ pc'[p] # pc[p]) => db' = db]_vars

\* The second run in a row has populated the instance, which holds keys.
C3_Witness ==
    /\ rerun[1] = "returned"
    /\ pc[1] = "populated"
    /\ Len(keys[1]) = 2
    /\ inst[1].key_field = <<"A">>

\* C4: after an extract_and_populate_fields call that raised, the template
\* holds the fields and key_field it held when the call began.
C4_FailedRefreshChangesNothing ==
    \A p \in Procs :
        ret[p] = Ended("extract_and_populate_fields", TRUE) =>
            Snapshot(inst[p]) = pre[p]

\* No step of a call that ends raising writes the row.
FailedRefreshPersistsNothing ==
    [][\A p \in Procs :
          (pc'[p] # pc[p] /\ ret'[p] = Ended("extract_and_populate_fields", TRUE))
          => db' = db]_vars

\* C5: an assignment of key_field is accepted only when the value is unset or
\* a key of the template's fields.
C5_KeyFieldValidated ==
    \A p \in Procs :
        (ret[p] = Ended("set_key_field", FALSE) /\ Truthy(inst[p].key_field))
        => inst[p].key_field \in DOMAIN inst[p].fields

\* The lexicographically smallest element of a non-empty set of keys.
Smallest(S) == CHOOSE k \in S : \A j \in S \ {k} : LexLess(k, j)

\* C8: extract_and_populate_fields assigns a default key_field only when
\* key_field was unset and keys were extracted, and then the smallest key;
\* otherwise key_field stays as it was.
C8_DefaultKeyIsSmallest ==
    \A p \in Procs :
        pc[p] = "populated" =>
            inst[p].key_field =
                IF ~Truthy(pre[p].key_field) /\ Range(keys[p]) # {}
                THEN Smallest(Range(keys[p]))
                ELSE pre[p].key_field

\* A call on a template with no key_field has extracted B and A and assigned A.
C8_Witness ==
    /\ pc[1] = "populated"
    /\ pre[1].key_field = None
    /\ Range(keys[1]) = { <<"A">>, <<"B">> }
    /\ inst[1].key_field = <<"A">>

\* C9: every write of the row's fields and key_field writes both from one
\* instance, and once the writer's call has returned the row holds the pair of
\* the request that saved last.
C9_AtomicLastWriteWins ==
    /\ [](\A p \in Procs :
             (writer = p /\ pc[p] = "idle" /\ ret[p].call # "none" /\ ~ret[p].raised)
             => Snapshot(db) = Snapshot(inst[p]))
    /\ [][Snapshot(db') # Snapshot(db)
          => (writer' \in Procs /\ Snapshot(db') = Snapshot(inst'[writer']))]_vars

\* Both requests have completed a refresh with different results; the row
\* holds the result of request 2, which saved last.
C9_Witness ==
    /\ \A p \in Procs : ret[p] = Ended("extract_and_populate_fields", FALSE)
    /\ writer = 2
    /\ Snapshot(inst[1]) # Snapshot(inst[2])
    /\ inst[1].fields # inst[2].fields
    /\ inst[1].key_field # inst[2].key_field
    /\ Snapshot(db) = Snapshot(inst[2])

\* C10: a file handle is open only between f.open() and the extraction; once
\* a call has returned or raised none is, and none is held between calls.
C10_HandleClosedOnExit ==
    \A p \in Procs : p \in handles => pc[p] = "opened"

\* An extraction has raised on a malformed file and its handle is closed.
C10_Witness ==
    /\ ret[1] = Ended("extract_and_populate_fields", TRUE)
    /\ inst[1].file = MalformedFile
    /\ handles = {}

====
